---- MODULE Spec2Model ----
(***************************************************************************)
(* Model of soma (src/main.go, lines 1-460): the startup reconciliation of *)
(* the persisted session against the live mpv player (initialModel) and    *)
(* the bubbletea control loop (model.Update), preceded by the connection to *)
(* the player (startMpvClient, runMpv) and followed by the two ways out of *)
(* the process: the user's quit and the signal goroutine of runMpv.        *)
(*                                                                         *)
(* Go list indices are 0-based; the model uses 1-based indices.            *)
(***************************************************************************)
EXTENDS Integers, Sequences, FiniteSets, TLC

\* ------------------------------------------------------------------ bounds
NumChannels == 2     \* channels in the directory snapshot
MaxInbox == 1        \* notifications in flight towards the loop
MaxToggles == 4      \* longest run of consecutive activations that is tracked

\* ---------------------------------------------------------------- constants
MaxAttempts == 15    \* connection attempts after the player was launched
SignalsCap == 1      \* capacity of the signals channel

\* ------------------------------------------------------- channel directory
ChanIds == <<"c1", "c2", "c3", "c4">>
ChanUrls == <<"u1", "u2", "u3", "u4">>

Chans == 1..NumChannels
Id(i) == ChanIds[i]
HighestURL(i) == ChanUrls[i]
KnownIds == {Id(i) : i \in Chans}

\* a path loaded in the player that is no channel's stream, and a persisted
\* id that is no longer in the directory
UnknownUrl == "u?"
StaleId == "gone"
Titles == {"t1"}
NilTitle == "nil"

\* ------------------------------------------------------ player commands
Cmd(op, arg) == [op |-> op, arg |-> arg]
BoolArg(b) == IF b THEN "yes" ELSE "no"
Loadfile(url) == Cmd("loadfile", url)
SetPause(b) == Cmd("set_pause", BoolArg(b))
GetPath == Cmd("get_property", "path")
GetPause == Cmd("get_property", "pause")
GetMediaTitle == Cmd("get_property", "media-title")

IsQuery(c) == c.op = "get_property"
\* the commands of a log, its queries left out
Commands(log) == SelectSeq(log, LAMBDA c : ~IsQuery(c))
Loads(log) == SelectSeq(log, LAMBDA c : c.op = "loadfile")
Pauses(log) == SelectSeq(log, LAMBDA c : c.op = "set_pause")

\* what a command does to the player
ApplyCmd(p, c) ==
  IF c.op = "loadfile" THEN [p EXCEPT !.path = c.arg]
  ELSE IF c.op = "set_pause" THEN [p EXCEPT !.pause = (c.arg = "yes")]
  ELSE p

RECURSIVE ApplyCmds(_, _)
ApplyCmds(p, log) ==
  IF log = <<>> THEN p ELSE ApplyCmds(ApplyCmd(p, Head(log)), Tail(log))

\* the players a log can leave behind: each command takes effect or fails
RECURSIVE Outcomes(_, _)
Outcomes(p, log) ==
  IF log = <<>> THEN {p}
  ELSE UNION {Outcomes(q, Tail(log)) : q \in {ApplyCmd(p, Head(log)), p}}

\* ------------------------------------------------------------ config store
ZeroConfig == [CurrentlyPlaying |-> "", IsPaused |-> FALSE]

MissingFile == [kind |-> "missing", CurrentlyPlaying |-> "", IsPaused |-> FALSE, cached |-> FALSE]
CorruptFile == [kind |-> "corrupt", CurrentlyPlaying |-> "", IsPaused |-> FALSE, cached |-> FALSE]
OkFile(cp, ip, ca) == [kind |-> "ok", CurrentlyPlaying |-> cp, IsPaused |-> ip, cached |-> ca]

\* a file whose JSON breaks off after some fields were decoded
PartialFile == [kind |-> "corrupt", CurrentlyPlaying |-> "c1", IsPaused |-> TRUE, cached |-> TRUE]

Files ==
  {MissingFile, CorruptFile, PartialFile} \cup
  {OkFile(cp, ip, ca) : cp \in {""} \cup KnownIds \cup {StaleId}, ip \in BOOLEAN, ca \in BOOLEAN}

\* mutant of loadConfig: the fields decoded before the error are returned
loadConfig_Partial(f) ==
  [CurrentlyPlaying |-> f.CurrentlyPlaying, IsPaused |-> f.IsPaused]

\* loadConfig: the session part of what it returns
loadConfig(f) ==
  IF f.kind = "ok"
  THEN [CurrentlyPlaying |-> f.CurrentlyPlaying, IsPaused |-> f.IsPaused]
  ELSE ZeroConfig

\* the whole somaConfig: the session and the directory snapshot (Channels and
\* LastChannelsListUpdate): "none", "now" (fetched by this process, the
\* time.Time of time.Now() with its monotonic reading) or "wall" (decoded
\* from the file, wall clock only)
Snapshots == {"none", "now", "wall"}

somaConfig(cfg, ca) ==
  [CurrentlyPlaying |-> cfg.CurrentlyPlaying, IsPaused |-> cfg.IsPaused, cached |-> ca]

\* mutant of Marshal: isPaused is not written
Marshal_DropPaused(c) == OkFile(c.CurrentlyPlaying, FALSE, c.cached # "none")

\* json.MarshalIndent of a somaConfig (the time is written in RFC 3339, the
\* monotonic reading is not), and decoder.Decode of a file
Marshal(c) == OkFile(c.CurrentlyPlaying, c.IsPaused, c.cached # "none")
Decode(f) ==
  IF f.kind = "ok"
  THEN somaConfig(loadConfig(f), IF f.cached THEN "wall" ELSE "none")
  ELSE somaConfig(ZeroConfig, "none")

\* a somaConfig without the monotonic reading of its time
Wall(c) == [c EXCEPT !.cached = IF @ = "now" THEN "wall" ELSE @]

\* io: "ok", "openfail" (OpenFile fails), "writefail" (Write fails after O_TRUNC)
saveConfig(f, c, io) ==
  IF io = "openfail" THEN f
  ELSE IF io = "writefail" THEN CorruptFile
  ELSE Marshal(c)

\* --------------------------------------------------------------- the model
NoStatus == [ch |-> "", title |-> ""]

channelsToItems == [i \in Chans |-> FALSE]

setIsPlaying(id, isPlaying) == [i \in Chans |-> IF Id(i) = id THEN isPlaying ELSE FALSE]

VARIABLES
  pc,        \* main: "connect", "retry", "start", "running", "quitsend",
             \* "quitting", and the ends of the process "exit0", "exit1",
             \* "exitsig", "panic"
  file,      \* the persisted config file
  config,    \* model.config: CurrentlyPlaying, IsPaused
  playing,   \* model.playing
  IsPlaying, \* channel.IsPlaying of every list item
  cursor,    \* model.list index
  status,    \* model.list status message
  quitting,  \* model.quitting
  signals,   \* mpvConfig.signals: made (non-nil) and the channel's buffer
  player,    \* the mpv process: path, pause, idle (core-idle)
  inbox,     \* messages sent by the notification handler, not yet processed
  cmds,      \* what the last step sent to the player
  last,      \* the last step: kind of message and what the pause query reported
  run,       \* consecutive activations since Playing(c) with the cursor on c
  mpvProc,   \* the mpv process: "none", "external", "spawned" (launched, not
             \* yet listening), "owned" (launched, listening), "killed"
  attempts,  \* i of the retry loop of startMpvClient: attempts since the launch
  sigpc,     \* the goroutine of runMpv: "off", "recv", "kill", "exit", "done"
  osSig,     \* a SIGINT/SIGTERM was delivered to this process
  cached,    \* model.config's channel list and timestamp, one of Snapshots
  prev       \* the channel X when the run before this one was quit in
             \* Playing(X) with the session saved, until this run's
             \* reconciliation; "" otherwise

life == <<mpvProc, attempts, sigpc, osSig, cached>>

vars == <<pc, file, config, playing, IsPlaying, cursor, status, quitting,
          signals, player, inbox, cmds, last, run, life, prev>>

NoRun == [n |-> 0, c |-> ""]
Step(kind) == [kind |-> kind, reported |-> FALSE]

\* the first channel of the list with this stream or this id, 0 when none
\* (the loops of initialModel break at the first match)
First(S) == IF S = {} THEN 0 ELSE CHOOSE i \in S : \A j \in S : i <= j
ChanByUrl(path) == First({i \in Chans : HighestURL(i) = path})
ChanById(id) == First({i \in Chans : Id(i) = id})

\* the model value (Go passes model by value; Update returns the next one)
Model(pl, cfg, marks, cur, st) ==
  [playing |-> pl, config |-> cfg, IsPlaying |-> marks, cursor |-> cur, status |-> st]

Out(m, log) == [m |-> m, cmds |-> log]

CurModel == Model(playing, config, IsPlaying, cursor, status)
SelectedItem(m) == m.cursor

\* ------------------------------------------------- startup reconciliation
\* the player reports path, the stream of channel i
ReconcileLivePath(m, i) ==
  Out([m EXCEPT !.playing = Id(i),
                !.cursor = i,
                !.IsPlaying = setIsPlaying(Id(i), m.config.IsPaused)],
      <<SetPause(m.config.IsPaused)>>)

\* mutant of ReconcileUnknownPath: the player is left alone
ReconcileUnknownPath_NoPause(m) == Out(m, <<>>)

\* the player reports a path that is no channel's stream
ReconcileUnknownPath(m) == Out(m, <<SetPause(TRUE)>>)

\* mutants of ReconcilePersisted: no load is issued / the pause flag is ignored
ReconcilePersisted_NoLoad(m) ==
  LET i == ChanById(m.config.CurrentlyPlaying) IN
  IF m.config.CurrentlyPlaying = "" \/ i = 0 THEN Out(m, <<>>)
  ELSE IF ~m.config.IsPaused
       THEN Out([m EXCEPT !.cursor = i,
                          !.playing = Id(i),
                          !.IsPlaying = setIsPlaying(Id(i), TRUE)],
                <<>>)
       ELSE Out([m EXCEPT !.cursor = i], <<>>)

ReconcilePersisted_IgnorePause(m) ==
  LET i == ChanById(m.config.CurrentlyPlaying) IN
  IF m.config.CurrentlyPlaying = "" \/ i = 0 THEN Out(m, <<>>)
  ELSE Out([m EXCEPT !.cursor = i,
                     !.playing = Id(i),
                     !.IsPlaying = setIsPlaying(Id(i), TRUE)],
           <<Loadfile(HighestURL(i))>>)

\* the player reports no path: fall back to the persisted CurrentlyPlaying
ReconcilePersisted(m) ==
  LET i == ChanById(m.config.CurrentlyPlaying) IN
  IF m.config.CurrentlyPlaying = "" \/ i = 0 THEN Out(m, <<>>)
  ELSE IF ~m.config.IsPaused
       THEN Out([m EXCEPT !.cursor = i,
                          !.playing = Id(i),
                          !.IsPlaying = setIsPlaying(Id(i), TRUE)],
                <<Loadfile(HighestURL(i))>>)
       ELSE Out([m EXCEPT !.cursor = i], <<>>)

initialModel(cfg, path) ==
  LET m0 == Model("", cfg, channelsToItems, 1, NoStatus)
      i == ChanByUrl(path)
      r == IF path # ""
           THEN IF i # 0 THEN ReconcileLivePath(m0, i) ELSE ReconcileUnknownPath(m0)
           ELSE ReconcilePersisted(m0)
  IN Out(r.m, <<GetPath>> \o r.cmds)

\* mutant of PlaySelectedChannel: config.CurrentlyPlaying is not updated
PlaySelectedChannel_NoConfig(m) ==
  Out([m EXCEPT !.playing = Id(SelectedItem(m))],
      <<Loadfile(HighestURL(SelectedItem(m)))>>)

\* ------------------------------------------------------------ model.Update
PlaySelectedChannel(m) ==
  Out([m EXCEPT !.playing = Id(SelectedItem(m)),
                !.config.CurrentlyPlaying = Id(SelectedItem(m))],
      <<Loadfile(HighestURL(SelectedItem(m)))>>)

\* mutant of UpdateTitle: the title notification resumes the session
UpdateTitle_TouchSession(m, title) ==
  Out([m EXCEPT !.status = [ch |-> Id(SelectedItem(m)), title |-> title],
                !.config.IsPaused = FALSE],
      <<>>)

\* case currentTitleUpdateMsg
UpdateTitle(m, title) ==
  Out([m EXCEPT !.status = [ch |-> Id(SelectedItem(m)), title |-> title]], <<>>)

\* mutant of UpdatePaused: the status message is kept
UpdatePaused_KeepStatus(m) ==
  Out([m EXCEPT !.IsPlaying = setIsPlaying(m.playing, FALSE),
                !.config.IsPaused = TRUE,
                !.playing = ""],
      <<>>)

\* mutant of UpdatePaused: config.IsPaused is not set
UpdatePaused_NoFlag(m) ==
  Out([m EXCEPT !.IsPlaying = setIsPlaying(m.playing, FALSE),
                !.playing = "",
                !.status = NoStatus],
      <<>>)

\* case changePausedStatusMsg, msg.paused
UpdatePaused(m) ==
  Out([m EXCEPT !.IsPlaying = setIsPlaying(m.playing, FALSE),
                !.config.IsPaused = TRUE,
                !.playing = "",
                !.status = NoStatus],
      <<>>)

\* mutant of UpdateUnpaused: the indicator follows the cursor
UpdateUnpaused_Selected(m, title) ==
  Out([m EXCEPT !.config.IsPaused = FALSE,
                !.playing = Id(SelectedItem(m)),
                !.IsPlaying = setIsPlaying(Id(SelectedItem(m)), TRUE),
                !.status = [ch |-> m.config.CurrentlyPlaying, title |-> title]],
      <<GetMediaTitle>>)

\* case changePausedStatusMsg, !msg.paused; title is what the player answers
UpdateUnpaused(m, title) ==
  Out([m EXCEPT !.config.IsPaused = FALSE,
                !.playing = m.config.CurrentlyPlaying,
                !.IsPlaying = setIsPlaying(m.config.CurrentlyPlaying, TRUE),
                !.status = [ch |-> m.config.CurrentlyPlaying, title |-> title]],
      <<GetMediaTitle>>)

\* mutant of EnterPlay: config.IsPaused is not reset
EnterPlay_KeepPaused(m, paused) ==
  LET p == PlaySelectedChannel(m)
      sel == Id(SelectedItem(p.m))
  IN Out([p.m EXCEPT !.IsPlaying = setIsPlaying(sel, TRUE),
                     !.playing = sel],
         p.cmds \o <<GetPause>> \o (IF paused THEN <<SetPause(FALSE)>> ELSE <<>>))

\* case "enter", m.playing != selected id; paused is what mpv.Pause() reports
EnterPlay(m, paused) ==
  LET p == PlaySelectedChannel(m)
      sel == Id(SelectedItem(p.m))
  IN Out([p.m EXCEPT !.IsPlaying = setIsPlaying(sel, TRUE),
                     !.config.IsPaused = FALSE,
                     !.playing = sel],
         p.cmds \o <<GetPause>> \o (IF paused THEN <<SetPause(FALSE)>> ELSE <<>>))

\* mutant of EnterPause: the indicator is not cleared
EnterPause_KeepPlaying(m) ==
  Out([m EXCEPT !.config.IsPaused = TRUE,
                !.status = NoStatus],
      <<SetPause(TRUE)>>)

\* case "enter", m.playing == selected id
EnterPause(m) ==
  Out([m EXCEPT !.IsPlaying = setIsPlaying(m.playing, FALSE),
                !.config.IsPaused = TRUE,
                !.playing = "",
                !.status = NoStatus],
      <<SetPause(TRUE)>>)

UpdateEnter(m, paused) ==
  IF m.playing # Id(SelectedItem(m)) THEN EnterPlay(m, paused) ELSE EnterPause(m)

\* m.list.Update for the cursor keys
CursorUp(m) == Out([m EXCEPT !.cursor = IF m.cursor > 1 THEN m.cursor - 1 ELSE m.cursor], <<>>)
CursorDown(m) ==
  Out([m EXCEPT !.cursor = IF m.cursor < NumChannels THEN m.cursor + 1 ELSE m.cursor], <<>>)

\* mutant of QuitCmds: the player is paused whoever launched it
QuitCmds_PauseAlways(sig) == <<SetPause(TRUE)>>

\* case "ctrl+c", "q": what is sent to the player
QuitCmds(sig) == IF sig.made THEN <<>> ELSE <<SetPause(TRUE)>>

\* ------------------------------------------------------------------- state
TitleMsg(t) == [type |-> "title", val |-> t]
PausedMsg(b) == [type |-> "paused", val |-> BoolArg(b)]

\* core-idle of a player with this path and pause flag may be false
CanPlay(p) == p.path # "" /\ ~p.pause

\* a player this process launched (mpv --idle), or one that was already there
FreshPlayer == [path |-> "", pause |-> FALSE, idle |-> TRUE]
LivePlayers ==
  {p \in [path : {""} \cup {HighestURL(i) : i \in Chans} \cup {UnknownUrl},
          pause : BOOLEAN, idle : BOOLEAN] : ~p.idle => CanPlay(p)}

NoSignals == [made |-> FALSE, buf |-> <<>>]
OwnSignals == [made |-> TRUE, buf |-> <<>>]

Init ==
  /\ pc = "connect"
  /\ file \in Files
  /\ config = ZeroConfig
  /\ playing = ""
  /\ IsPlaying = channelsToItems
  /\ cursor = 1
  /\ status = NoStatus
  /\ quitting = FALSE
  /\ signals = NoSignals
  /\ \/ mpvProc = "none" /\ player = FreshPlayer
     \/ mpvProc = "external" /\ player \in LivePlayers
  /\ attempts = 0
  /\ sigpc = "off"
  /\ osSig = FALSE
  /\ cached = "none"
  /\ prev = ""
  /\ inbox = <<>>
  /\ cmds = <<>>
  /\ last = Step("none")
  /\ run = NoRun

\* the loop state named by the spec
Playing(c) == c # "" /\ playing = c /\ config.CurrentlyPlaying = c /\ ~config.IsPaused
Paused(c) == c # "" /\ playing = "" /\ config.CurrentlyPlaying = c /\ config.IsPaused

\* the player process exists and serves its socket
Listening == mpvProc \in {"external", "owned"}

\* the process has ended
Terminal == {"exit0", "exit1", "exitsig", "panic"}

\* the process ends and its memory with it: what stays is the file, the
\* player, and how the process got here (quitting, osSig, sigpc)
Gone ==
  /\ config' = ZeroConfig
  /\ playing' = ""
  /\ IsPlaying' = channelsToItems
  /\ cursor' = 1
  /\ status' = NoStatus
  /\ inbox' = <<>>
  /\ cmds' = <<>>
  /\ run' = NoRun
  /\ attempts' = 0
  /\ cached' = "none"
  /\ signals' = [signals EXCEPT !.buf = <<>>]

\* install the result of a step of the main goroutine; the errors of the
\* commands are ignored
Install(r, step, nextRun) ==
  /\ playing' = r.m.playing
  /\ config' = r.m.config
  /\ IsPlaying' = r.m.IsPlaying
  /\ cursor' = r.m.cursor
  /\ status' = r.m.status
  /\ cmds' = r.cmds
  /\ player' \in (IF Listening THEN Outcomes(player, r.cmds) ELSE {player})
  /\ last' = step
  /\ run' = nextRun

\* mutant of ConnectOutcome: the flag is not looked at
ConnectOutcome_AlwaysLaunch(ok, startMpv) == IF ok THEN "start" ELSE "retry"

\* ----------------------------------------------------------------- connect
\* startMpvClient after the first mpv.NewIPCClient: ok is its success,
\* startMpv the -start-mpv flag
ConnectOutcome(ok, startMpv) ==
  IF ok THEN "start" ELSE IF startMpv THEN "retry" ELSE "exit1"

\* mutant of runMpv: signals is made before cmd.Start is tried
runMpv_SignalsFirst(started) ==
  IF started
  THEN [mpvProc |-> "spawned", signals |-> OwnSignals, sigpc |-> "recv"]
  ELSE [mpvProc |-> mpvProc, signals |-> OwnSignals, sigpc |-> "recv"]

\* runMpv: cmd.Start succeeded or not
runMpv(started) ==
  IF started
  THEN [mpvProc |-> "spawned", signals |-> OwnSignals, sigpc |-> "recv"]
  ELSE [mpvProc |-> mpvProc, signals |-> signals, sigpc |-> sigpc]

\* the first attempt finds the listener
Connect ==
  /\ pc = "connect"
  /\ \E startMpv \in BOOLEAN : pc' = ConnectOutcome(Listening, startMpv)
  /\ pc' = "start"
  /\ last' = Step("connect")
  /\ UNCHANGED <<prev, file, config, playing, IsPlaying, cursor, status, quitting,
                 signals, player, inbox, cmds, run, life>>

\* no listener and -start-mpv=false: the error is returned, main exits 1
ConnectFail ==
  /\ pc = "connect"
  /\ \E startMpv \in BOOLEAN : pc' = ConnectOutcome(Listening, startMpv)
  /\ pc' = "exit1"
  /\ last' = Step("connectfail")
  /\ UNCHANGED <<prev, file, config, playing, IsPlaying, cursor, status, quitting,
                 signals, player, inbox, cmds, run, life>>

\* how a launch is recorded: with the flag (started or not) or without it
LaunchKind(startMpv, started) ==
  IF ~startMpv THEN "launch_unasked" ELSE IF started THEN "launch" ELSE "launchfail"

\* no listener and -start-mpv: runMpv, then the retry loop
ConnectLaunch ==
  /\ pc = "connect"
  /\ pc' = "retry"
  /\ \E startMpv, started \in BOOLEAN :
       /\ pc' = ConnectOutcome(Listening, startMpv)
       /\ mpvProc' = runMpv(started).mpvProc
       /\ signals' = runMpv(started).signals
       /\ sigpc' = runMpv(started).sigpc
       /\ last' = Step(LaunchKind(startMpv, started))
  /\ UNCHANGED <<prev, file, config, playing, IsPlaying, cursor, status, quitting,
                 player, inbox, cmds, run, attempts, osSig, cached>>

\* the launched mpv opens its socket
PlayerListen ==
  /\ pc \notin Terminal
  /\ mpvProc = "spawned"
  /\ mpvProc' = "owned"
  /\ UNCHANGED <<prev, pc, file, config, playing, IsPlaying, cursor, status, quitting,
                 signals, player, inbox, cmds, last, run, attempts, sigpc, osSig,
                 cached>>

\* mutant of RetryOutcome: one attempt too many
RetryOutcome_OffByOne(ok, n) ==
  IF ok THEN "start" ELSE IF n <= MaxAttempts THEN "retry" ELSE "exit1"

\* one turn of the retry loop: where main is after attempt number n
RetryOutcome(ok, n) ==
  IF ok THEN "start" ELSE IF n < MaxAttempts THEN "retry" ELSE "exit1"

Retry ==
  /\ pc = "retry"
  /\ attempts' = attempts + 1
  /\ pc' = RetryOutcome(Listening, attempts + 1)
  /\ last' = Step(IF Listening THEN "connect"
                  ELSE IF pc' = "exit1" THEN "timeout" ELSE "retry")
  /\ UNCHANGED <<prev, file, config, playing, IsPlaying, cursor, status, quitting,
                 signals, player, inbox, cmds, run, mpvProc, sigpc, osSig, cached>>

\* ----------------------------------------------------------------- startup
NeedFetch(f) == ~(f.kind = "ok" /\ f.cached)

\* getSomaChannels fails: os.Exit(1)
StartFetchFail ==
  /\ pc = "start"
  /\ NeedFetch(file)
  /\ pc' = "exit1"
  /\ config' = loadConfig(file)
  /\ last' = Step("fetchfail")
  /\ UNCHANGED <<prev, file, playing, IsPlaying, cursor, status, quitting, signals,
                 player, inbox, cmds, run, life>>

\* m.mpv.Path() fails: panic
StartPanic ==
  /\ pc = "start"
  /\ pc' = "panic"
  /\ config' = loadConfig(file)
  /\ cmds' = <<GetPath>>
  /\ last' = Step("panic")
  /\ UNCHANGED <<prev, file, playing, IsPlaying, cursor, status, quitting, signals,
                 player, inbox, run, life>>

\* ObserveProperty("core-idle"): mpv answers with the current value
RegisterMpvEventHandler(p) == <<PausedMsg(p.idle)>>

\* initialModel, RegisterMpvEventHandler and the start of p.Run
Start ==
  /\ pc = "start"
  /\ Listening
  /\ Install(initialModel(loadConfig(file), player.path), Step("start"), NoRun)
  /\ inbox' = RegisterMpvEventHandler(player')
  /\ pc' = "running"
  /\ attempts' = 0
  /\ cached' = (IF NeedFetch(file) THEN "now" ELSE "wall")
  /\ prev' = ""
  /\ UNCHANGED <<file, quitting, signals, mpvProc, sigpc, osSig>>

\* ------------------------------------------------------------- environment
\* mutant of PlayerCoreIdle: the handler writes the session itself
PlayerCoreIdle_WritesSession ==
  /\ pc = "running"
  /\ Listening
  /\ Len(inbox) < MaxInbox
  /\ player.idle => CanPlay(player)
  /\ player' = [player EXCEPT !.idle = ~player.idle]
  /\ inbox' = Append(inbox, PausedMsg(~player.idle))
  /\ config' = [config EXCEPT !.IsPaused = ~player.idle]
  /\ UNCHANGED <<prev, pc, file, playing, IsPlaying, cursor, status, quitting,
                 signals, cmds, last, run, life>>

\* mpv's core-idle changes; the handler sends changePausedStatusMsg
PlayerCoreIdle ==
  /\ pc = "running"
  /\ Listening
  /\ Len(inbox) < MaxInbox
  /\ player.idle => CanPlay(player)
  /\ player' = [player EXCEPT !.idle = ~player.idle]
  /\ inbox' = Append(inbox, PausedMsg(~player.idle))
  /\ UNCHANGED <<prev, pc, file, config, playing, IsPlaying, cursor, status, quitting,
                 signals, cmds, last, run, life>>

\* mpv's media-title changes; the handler sends currentTitleUpdateMsg
PlayerTitle ==
  /\ pc = "running"
  /\ Listening
  /\ Len(inbox) < MaxInbox
  /\ player.path # ""
  /\ \E t \in Titles : inbox' = Append(inbox, TitleMsg(t))
  /\ UNCHANGED <<prev, pc, file, config, playing, IsPlaying, cursor, status, quitting,
                 signals, player, cmds, last, run, life>>

\* another controller of the same player pauses or resumes it
ExternalPause ==
  /\ pc = "running"
  /\ Listening
  /\ player' = [player EXCEPT !.pause = ~player.pause]
  /\ UNCHANGED <<prev, pc, file, config, playing, IsPlaying, cursor, status, quitting,
                 signals, inbox, cmds, last, run, life>>

\* ---------------------------------------------------------------- the loop
LoopTitle ==
  /\ pc = "running"
  /\ inbox # <<>> /\ Head(inbox).type = "title"
  /\ Install(UpdateTitle(CurModel, Head(inbox).val), Step("title"), NoRun)
  /\ inbox' = Tail(inbox)
  /\ UNCHANGED <<prev, pc, file, quitting, signals, life>>

LoopPaused ==
  /\ pc = "running"
  /\ inbox # <<>> /\ Head(inbox) = PausedMsg(TRUE)
  /\ Install(UpdatePaused(CurModel), Step("paused"), NoRun)
  /\ inbox' = Tail(inbox)
  /\ UNCHANGED <<prev, pc, file, quitting, signals, life>>

LoopUnpaused ==
  /\ pc = "running"
  /\ inbox # <<>> /\ Head(inbox) = PausedMsg(FALSE)
  /\ \E t \in Titles \cup {NilTitle} :
       Install(UpdateUnpaused(CurModel, t), Step("unpaused"), NoRun)
  /\ inbox' = Tail(inbox)
  /\ UNCHANGED <<prev, pc, file, quitting, signals, life>>

NextRun ==
  IF run.n > 0 /\ run.n < MaxToggles THEN [run EXCEPT !.n = @ + 1]
  ELSE IF Playing(Id(cursor)) THEN [n |-> 1, c |-> Id(cursor)]
  ELSE NoRun

\* mpv.Pause() answers the player's pause flag, or false with an error
KeyEnter ==
  /\ pc = "running"
  /\ \E paused \in {player.pause, FALSE} :
       Install(UpdateEnter(CurModel, paused),
               [kind |-> IF playing # Id(cursor) THEN "play" ELSE "pause",
                reported |-> paused],
               NextRun)
  /\ UNCHANGED <<prev, pc, file, quitting, signals, inbox, life>>

KeyUp ==
  /\ pc = "running"
  /\ Install(CursorUp(CurModel), Step("up"), NoRun)
  /\ UNCHANGED <<prev, pc, file, quitting, signals, inbox, life>>

KeyDown ==
  /\ pc = "running"
  /\ Install(CursorDown(CurModel), Step("down"), NoRun)
  /\ UNCHANGED <<prev, pc, file, quitting, signals, inbox, life>>

WindowSize ==
  /\ pc = "running"
  /\ Install(Out(CurModel, <<>>), Step("resize"), NoRun)
  /\ UNCHANGED <<prev, pc, file, quitting, signals, inbox, life>>

\* case "ctrl+c", "q": m.config.saveConfig(), its error ignored
QuitKind(io) == IF io = "ok" THEN "quit" ELSE IF io = "openfail" THEN "quit_openfail" ELSE "quit_writefail"

\* what the run leaves to the next one
QuitIn(io) == IF io = "ok" /\ Playing(playing) THEN playing ELSE ""

KeyQuit ==
  /\ pc = "running"
  /\ \E io \in {"ok", "openfail", "writefail"} :
       /\ file' = saveConfig(file, somaConfig(config, cached), io)
       /\ last' = Step(QuitKind(io))
       /\ prev' = QuitIn(io)
  /\ pc' = "quitsend"
  /\ cmds' = <<>>
  /\ run' = NoRun
  /\ UNCHANGED <<config, playing, IsPlaying, cursor, status, quitting, signals,
                 player, inbox, life>>

\* case "ctrl+c", "q": what is sent on m.mpvConfig.signals
QuitSignal(sig) == IF sig.made THEN [sig EXCEPT !.buf = Append(@, "kill")] ELSE sig

\* the rest of the case: the send on signals (which waits for room in the
\* channel) or the pause, m.quitting, tea.Quit
QuitStop ==
  /\ pc = "quitsend"
  /\ signals.made => Len(signals.buf) < SignalsCap
  /\ signals' = QuitSignal(signals)
  /\ Install(Out(CurModel, QuitCmds(signals)), Step("quitstop"), NoRun)
  /\ quitting' = TRUE
  /\ pc' = "quitting"
  /\ UNCHANGED <<prev, file, inbox, life>>

\* p.Run returns nil, main returns
MainReturn ==
  /\ pc = "quitting"
  /\ pc' = "exit0"
  /\ Gone
  /\ UNCHANGED <<prev, file, quitting, player, last, mpvProc, sigpc, osSig>>

\* ------------------------------------------------- the goroutine of runMpv
\* <-c.signals
SigRecv ==
  /\ pc \notin Terminal
  /\ sigpc = "recv"
  /\ signals.buf # <<>>
  /\ signals' = [signals EXCEPT !.buf = Tail(@)]
  /\ sigpc' = "kill"
  /\ UNCHANGED <<prev, pc, file, config, playing, IsPlaying, cursor, status, quitting,
                 player, inbox, cmds, last, run, mpvProc, attempts, osSig, cached>>

\* mutant of SigKill: the player is not killed
SigKill_NoKill ==
  /\ pc \notin Terminal
  /\ sigpc = "kill"
  /\ sigpc' = "exit"
  /\ UNCHANGED <<prev, pc, file, config, playing, IsPlaying, cursor, status, quitting,
                 signals, player, inbox, cmds, last, run, mpvProc, attempts, osSig,
                 cached>>

\* cmd.Process.Kill(), cmd.Wait(): the player process and its state are gone
SigKill ==
  /\ pc \notin Terminal
  /\ sigpc = "kill"
  /\ mpvProc' = "killed"
  /\ player' = FreshPlayer
  /\ sigpc' = "exit"
  /\ UNCHANGED <<prev, pc, file, config, playing, IsPlaying, cursor, status, quitting,
                 signals, inbox, cmds, last, run, attempts, osSig, cached>>

\* os.Exit(1)
SigExit ==
  /\ pc \notin Terminal
  /\ sigpc = "exit"
  /\ sigpc' = "done"
  /\ pc' = "exit1"
  /\ Gone
  /\ last' = Step("sigexit")
  /\ UNCHANGED <<prev, file, quitting, player, mpvProc, osSig>>

\* what a SIGINT or SIGTERM does: signal.Notify puts it on signals when there
\* is room; without runMpv nothing of this program handles it
Deliver(sig) ==
  IF sig.made /\ Len(sig.buf) < SignalsCap THEN [sig EXCEPT !.buf = Append(@, "os")] ELSE sig

\* this program handles the signal: it is put on signals
OsSignal ==
  /\ pc \notin Terminal
  /\ ~osSig
  /\ signals.made
  /\ osSig' = TRUE
  /\ signals' = Deliver(signals)
  /\ UNCHANGED <<prev, pc, file, config, playing, IsPlaying, cursor, status, quitting,
                 player, inbox, cmds, last, run, mpvProc, attempts, sigpc, cached>>

\* signals is nil: the process ends by the signal, nothing else is done
OsSignalDefault ==
  /\ pc \notin Terminal
  /\ ~osSig
  /\ ~signals.made
  /\ osSig' = TRUE
  /\ pc' = "exitsig"
  /\ Gone
  /\ last' = Step("signal")
  /\ UNCHANGED <<prev, file, quitting, player, mpvProc, sigpc>>

\* the player process as the next run of soma finds it
NextProc(proc) == IF proc = "killed" THEN "none" ELSE "external"

\* after a quit the user starts soma again: a new process, the same file,
\* the player as the run before left it
Restart ==
  /\ pc \in Terminal
  /\ quitting
  /\ pc' = "connect"
  /\ quitting' = FALSE
  /\ signals' = NoSignals
  /\ sigpc' = "off"
  /\ osSig' = FALSE
  /\ mpvProc' = NextProc(mpvProc)
  /\ last' = Step("none")
  /\ UNCHANGED <<prev, file, config, playing, IsPlaying, cursor, status, player,
                 inbox, cmds, run, attempts, cached>>

Next ==
  \/ Connect
  \/ ConnectFail
  \/ ConnectLaunch
  \/ PlayerListen
  \/ Retry
  \/ StartFetchFail
  \/ StartPanic
  \/ Start
  \/ PlayerCoreIdle
  \/ PlayerTitle
  \/ ExternalPause
  \/ LoopTitle
  \/ LoopPaused
  \/ LoopUnpaused
  \/ KeyEnter
  \/ KeyUp
  \/ KeyDown
  \/ WindowSize
  \/ KeyQuit
  \/ QuitStop
  \/ MainReturn
  \/ SigRecv
  \/ SigKill
  \/ SigExit
  \/ OsSignal
  \/ OsSignalDefault
  \/ Restart

Spec == Init /\ [][Next]_vars

\* ================================================================== claims
NoMarks(marks) == \A i \in Chans : ~marks[i]
OnlyMark(marks, i) == \A j \in Chans : marks[j] <=> (j = i)
Persisted == loadConfig(file)

\* C1: once the loop runs, the now-playing indicator (model.playing) is
\* non-empty if and only if the session has a selected channel
\* (config.CurrentlyPlaying non-empty) and config.IsPaused is false.
C1_IndicatorIffPlaying ==
  pc = "running" =>
    (playing # "" <=> (config.CurrentlyPlaying # "" /\ ~config.IsPaused))

\* C2: reconciliation with a persisted session {X, not paused}, X a known
\* channel, and a player that reports no path sends exactly one command, the
\* load of X's stream, and ends in Playing(X) with X the only marked channel.
C2_ResumePersisted ==
  [][(Start /\ player.path = "" /\ Persisted.CurrentlyPlaying \in KnownIds
        /\ ~Persisted.IsPaused)
     => LET x == ChanById(Persisted.CurrentlyPlaying) IN
          /\ Commands(cmds') = <<Loadfile(HighestURL(x))>>
          /\ playing' = Id(x)
          /\ config' = [CurrentlyPlaying |-> Id(x), IsPaused |-> FALSE]
          /\ OnlyMark(IsPlaying', x)
          /\ cursor' = x]_vars

C2_Witness ==
  /\ last.kind = "start"
  /\ file.kind = "ok" /\ file.CurrentlyPlaying = Id(2) /\ ~file.IsPaused
  /\ cmds = <<GetPath, Loadfile(HighestURL(2))>>
  /\ playing = Id(2) /\ IsPlaying[2] /\ cursor = 2

\* C3: reconciliation with a player that reports the stream of known channel
\* Y sends the persisted pause flag to the player and no load; when that flag
\* is true, neither model.playing nor any channel's mark is set (Paused(Y)).
C3_LivePathPaused ==
  [][(Start /\ ChanByUrl(player.path) # 0)
     => /\ Commands(cmds') = <<SetPause(Persisted.IsPaused)>>
        /\ Persisted.IsPaused => (playing' = "" /\ NoMarks(IsPlaying'))]_vars

\* C4: reconciliation with no live path and a persisted session {X, paused}
\* sends no command to the player (only the path query), leaves the
\* indicator and every mark empty, and puts the cursor on X when X is known.
C4_PausedNoCommand ==
  [][(Start /\ player.path = "" /\ Persisted.CurrentlyPlaying # ""
        /\ Persisted.IsPaused)
     => /\ Commands(cmds') = <<>>
        /\ player' = player
        /\ playing' = "" /\ NoMarks(IsPlaying')
        /\ config' = Persisted
        /\ Persisted.CurrentlyPlaying \in KnownIds
             => Id(cursor') = Persisted.CurrentlyPlaying]_vars

C4_Witness ==
  /\ last.kind = "start"
  /\ file.kind = "ok" /\ file.CurrentlyPlaying = Id(2) /\ file.IsPaused
  /\ cmds = <<GetPath>>
  /\ player.path = ""
  /\ playing = "" /\ cursor = 2

\* C5: enter on the channel that is now playing sends a pause to the player,
\* clears the indicator and every mark, sets config.IsPaused and leaves
\* config.CurrentlyPlaying as it was.
C5_ActivatePlayingPauses ==
  [][(KeyEnter /\ playing = Id(cursor))
     => /\ Commands(cmds') = <<SetPause(TRUE)>>
        /\ playing' = "" /\ NoMarks(IsPlaying')
        /\ config'.IsPaused
        /\ config'.CurrentlyPlaying = config.CurrentlyPlaying]_vars

C5_Witness ==
  /\ last.kind = "pause"
  /\ cmds = <<SetPause(TRUE)>>
  /\ Paused(Id(cursor))

\* C6: enter on a channel other than the indicated one (the indicator may be
\* empty) loads that channel's stream, sets config.CurrentlyPlaying and the
\* indicator to it, clears config.IsPaused, and un-pauses the player exactly
\* when the player reported itself paused.
C6_ActivateOtherPlays ==
  [][(KeyEnter /\ playing # Id(cursor))
     => /\ Loads(cmds') = <<Loadfile(HighestURL(cursor))>>
        /\ config' = [CurrentlyPlaying |-> Id(cursor), IsPaused |-> FALSE]
        /\ playing' = Id(cursor) /\ OnlyMark(IsPlaying', cursor)
        /\ Pauses(cmds') = IF last'.reported THEN <<SetPause(FALSE)>> ELSE <<>>]_vars

C6_Witness ==
  /\ last.kind = "play" /\ last.reported
  /\ cmds = <<Loadfile(HighestURL(cursor)), GetPause, SetPause(FALSE)>>
  /\ Playing(Id(cursor))
  /\ ~player.pause

\* C7: after n consecutive activations from Playing(c) with the cursor on c,
\* the loop is back in Playing(c) when n is even and in Paused(c) when n is
\* odd.
C7_ToggleNoDrift ==
  run.n > 0 => IF run.n % 2 = 0 THEN Playing(run.c) ELSE Paused(run.c)

C7_Witness == run.n = MaxToggles /\ Playing(run.c) /\ Id(cursor) = run.c

\* C8: processing changePausedStatusMsg{paused: true} clears the indicator
\* and every mark, sets config.IsPaused, clears the status message, leaves
\* config.CurrentlyPlaying as it was and sends nothing to the player.
C8_IdleNotification ==
  [][LoopPaused
     => /\ playing' = "" /\ NoMarks(IsPlaying')
        /\ config'.IsPaused
        /\ status' = NoStatus
        /\ config'.CurrentlyPlaying = config.CurrentlyPlaying
        /\ cmds' = <<>> /\ player' = player]_vars

C8_Witness ==
  /\ last.kind = "paused"
  /\ Paused(Id(1))
  /\ ~player.idle

\* C9: processing changePausedStatusMsg{paused: false} sets the indicator to
\* config.CurrentlyPlaying, clears config.IsPaused, leaves
\* config.CurrentlyPlaying as it was and sends no load or pause to the player.
C9_NotIdleNotification ==
  [][LoopUnpaused
     => /\ playing' = config.CurrentlyPlaying
        /\ config' = [CurrentlyPlaying |-> config.CurrentlyPlaying, IsPaused |-> FALSE]
        /\ Commands(cmds') = <<>> /\ player' = player]_vars

C9_Witness ==
  /\ last.kind = "unpaused"
  /\ Playing(Id(2))
  /\ cursor = 1
  /\ cmds = <<GetMediaTitle>>

\* C10: among the steps of the running loop only enter and the idle/not-idle
\* notifications change config; a title notification leaves config, the
\* indicator and the marks as they were and sends nothing to the player.
C10_SessionFrame ==
  [][/\ (pc = "running" /\ pc' \notin Terminal /\ config' # config) => (KeyEnter \/ LoopPaused \/ LoopUnpaused)
     /\ LoopTitle => /\ config' = config
                    /\ playing' = playing /\ IsPlaying' = IsPlaying
                    /\ cmds' = <<>> /\ player' = player]_vars

C10_Witness ==
  /\ last.kind = "title"
  /\ status.title \in Titles
  /\ Playing(Id(cursor))

\* C11: on quit, a successful save leaves in the file the session that is in
\* memory; the save step sends nothing towards the player; the shutdown
\* request (os.Kill on signals) or the pause comes in the step after the save,
\* the former only with a player this process launched, the latter only
\* without; the loop is then in Quitting.
QuitKinds == {"quit", "quit_openfail", "quit_writefail"}

C11_QuitSavesFirst ==
  [][/\ KeyQuit => /\ last'.kind = "quit" => loadConfig(file') = config
                   /\ signals' = signals /\ cmds' = <<>>
                   /\ player' = player /\ mpvProc' = mpvProc
     /\ QuitStop => /\ last.kind \in QuitKinds
                    /\ file' = file
                    /\ signals.made =>
                         /\ signals'.buf = Append(signals.buf, "kill")
                         /\ Commands(cmds') = <<>>
                    /\ ~signals.made =>
                         /\ signals' = signals
                         /\ Commands(cmds') = <<SetPause(TRUE)>>
                    /\ quitting' /\ pc' = "quitting"
     /\ (pc = "running" /\ signals'.buf # signals.buf) => (OsSignal \/ SigRecv)]_vars

C11_Witness ==
  /\ pc = "quitting" /\ quitting
  /\ last.kind = "quitstop"
  /\ signals.buf = <<"kill">>
  /\ mpvProc = "owned"
  /\ Playing(Id(2))
  /\ loadConfig(file) = config

\* C12: a clean user quit (no signal from outside) ends the process with exit
\* code 0, whether or not this process launched the player.
C12_CleanQuitExitsZero ==
  (pc \in Terminal /\ quitting /\ ~osSig) => pc = "exit0"

\* C13: on a SIGINT/SIGTERM with a launched player the goroutine kills the
\* player before it exits with status 1, and none of its steps saves the
\* session or goes through the quit transition; without a launched player
\* the process ends with nothing sent to the player, which stays as it is.
C13_SignalPath ==
  [][/\ (SigRecv \/ SigKill \/ SigExit) => (file' = file /\ quitting' = quitting)
     /\ (SigRecv \/ SigKill) => (pc' = pc /\ config' = config)
     /\ OsSignal => (sigpc \in {"recv", "kill", "exit"} /\ file' = file /\ player' = player)
     /\ SigExit => (mpvProc = "killed" /\ pc' = "exit1")
     /\ OsSignalDefault =>
          /\ pc' = "exitsig"
          /\ mpvProc' = mpvProc /\ player' = player
          /\ file' = file /\ quitting' = quitting]_vars

C13_Witness ==
  /\ pc = "exit1" /\ sigpc = "done"
  /\ osSig /\ ~quitting
  /\ mpvProc = "killed"
  /\ file.kind = "missing"

\* C14: after the launch every turn of the retry loop is one more attempt; an
\* attempt that finds the listener ends the loop with success, a failed one
\* repeats while fewer than 15 were made and ends with the connection error
\* at the 15th.
C14_BoundedRetry ==
  [][/\ pc = "retry" => attempts < MaxAttempts
     /\ Retry => /\ attempts' = attempts + 1
                 /\ Listening => pc' = "start"
                 /\ (~Listening /\ attempts' < MaxAttempts) => pc' = "retry"
                 /\ (~Listening /\ attempts' = MaxAttempts) => pc' = "exit1"
     /\ (pc = "retry" /\ pc' \in {"start", "exit1"}) => (Retry \/ SigExit)]_vars

C14_Witness ==
  /\ pc = "exit1" /\ last.kind = "timeout"
  /\ attempts = MaxAttempts
  /\ mpvProc = "spawned"
  /\ sigpc = "recv"

\* C15: with -start-mpv=false and no listener the first attempt's error ends
\* the process with status 1: no player is spawned, no retry is made, no
\* signal handler is installed, nothing of the reconciliation has run; and a
\* launch happens only with the flag.
C15_NoLaunchNoRetry ==
  [][/\ ConnectFail => /\ ~Listening /\ mpvProc' = "none"
                       /\ pc' = "exit1"
                       /\ attempts' = 0
                       /\ signals' = NoSignals /\ sigpc' = "off"
                       /\ config' = ZeroConfig /\ cmds' = <<>> /\ file' = file
     /\ ConnectLaunch => last'.kind \in {"launch", "launchfail"}]_vars

C15_Witness ==
  /\ pc = "exit1" /\ last.kind = "connectfail"
  /\ mpvProc = "none" /\ ~signals.made /\ sigpc = "off"
  /\ attempts = 0
  /\ file.kind = "ok"

\* C16: when the config file is missing or does not decode, startup goes on
\* with the zero session: nothing selected, not paused, none of the fields
\* that were decoded before the error.
C16_LoadFailsSoftly ==
  [][(pc = "start" /\ file.kind # "ok")
     => /\ (Start \/ StartFetchFail \/ StartPanic) => config' = ZeroConfig
        /\ Start => (pc' = "running" /\ Loads(cmds') = <<>>)]_vars

C16_Witness ==
  /\ pc = "running" /\ last.kind = "start"
  /\ file = PartialFile
  /\ config = ZeroConfig

SessionConsistent(pl, cfg) ==
  /\ pl # "" <=> (cfg.CurrentlyPlaying # "" /\ ~cfg.IsPaused)
  /\ pl # "" => pl = cfg.CurrentlyPlaying

ThreeWay(pl, cfg, p) ==
  pl # "" <=> /\ p.path # "" /\ ~p.pause
              /\ ChanById(cfg.CurrentlyPlaying) # 0
              /\ p.path = HighestURL(ChanById(cfg.CurrentlyPlaying))

UnknownLivePath == player.path # "" /\ ChanByUrl(player.path) = 0

C19_UnknownPathIgnored ==
  [][(Start /\ UnknownLivePath)
     => /\ playing' = "" /\ NoMarks(IsPlaying')
        /\ config' = Persisted
        /\ Commands(cmds') = <<>>]_vars

\* C19 (amended): ... and sends one command to the player, a pause, and no
\* load.
C19_UnknownPathPaused ==
  [][(Start /\ UnknownLivePath)
     => /\ playing' = "" /\ NoMarks(IsPlaying')
        /\ config' = Persisted
        /\ cursor' = 1
        /\ Commands(cmds') = <<SetPause(TRUE)>>]_vars

C19_Witness ==
  /\ pc = "running" /\ last.kind = "start"
  /\ player.path = UnknownUrl /\ player.pause
  /\ cmds = <<GetPath, SetPause(TRUE)>>
  /\ playing = "" /\ config.CurrentlyPlaying = Id(1) /\ ~config.IsPaused

\* C20: when the load sent by enter fails (the player is as before, with
\* another path), the loop goes on with the indicator, the marks and the
\* session as they were before the key.
C20_FailedCommandNoEffect ==
  [][(KeyEnter /\ playing # Id(cursor) /\ player.path # HighestURL(cursor)
        /\ player' = player)
     => /\ pc' = "running"
        /\ playing' = playing /\ IsPlaying' = IsPlaying
        /\ config' = config]_vars

\* the Session and the UI state
SessionUI == <<config, playing, IsPlaying, cursor, status, quitting>>

\* C21: no step outside the control loop writes the Session, the UI state or
\* the file: the notification handler only appends one message for the loop,
\* the signal goroutine only takes the signal and kills the player (its last
\* step ends the process), and the player's own changes touch neither.
C21_LoopOnlyWriter ==
  [][/\ (PlayerCoreIdle \/ PlayerTitle)
          => (SessionUI' = SessionUI /\ file' = file /\ Len(inbox') = Len(inbox) + 1)
     /\ (SigRecv \/ SigKill \/ OsSignal \/ ExternalPause \/ PlayerListen)
          => (SessionUI' = SessionUI /\ file' = file /\ inbox' = inbox)]_vars

C21_Witness ==
  /\ pc = "running" /\ last.kind = "unpaused"
  /\ Playing(Id(1))
  /\ player.idle
  /\ inbox = <<PausedMsg(TRUE)>>
  /\ sigpc = "kill"

\* C22: no step of the running loop sends the player a request whose answer
\* it waits for: what Update sends holds no query.
C22_FireAndForget ==
  [][(LoopTitle \/ LoopPaused \/ LoopUnpaused \/ KeyEnter)
     => \A i \in DOMAIN cmds' : ~IsQuery(cmds'[i])]_vars

\* C23: when the process has ended after a user quit and it had launched the
\* player, the player process has been killed.
C23_LaunchedPlayerStopped ==
  (pc \in Terminal /\ quitting /\ signals.made) => mpvProc = "killed"

\* the player as the run before left it: launched then and killed, so
\* launched anew by this run, or pre-existing with a channel's stream,
\* paused by the quit
LeftByQuit ==
  \/ mpvProc = "owned" /\ player.path = "" /\ ~player.pause
  \/ mpvProc = "external" /\ ChanByUrl(player.path) # 0 /\ player.pause

\* C24: in the run after a quit in Playing(X) with the session saved, X still
\* a channel, reconciliation (its commands taking effect) ends with the
\* indicator on X and the player playing the stream of X, not paused.
C24_RestartResumes ==
  [][(Start /\ prev \in KnownIds /\ LeftByQuit
        /\ player' = ApplyCmds(player, cmds'))
     => /\ playing' = prev
        /\ player'.path = HighestURL(ChanById(prev))
        /\ ~player'.pause]_vars

\* C25: while the loop runs, a channel is marked as playing if and only if
\* its id is model.playing.
C25_MarkIffPlaying ==
  pc = "running" => \A i \in Chans : IsPlaying[i] <=> (Id(i) = playing)

\* no idle/not-idle notification waits for the loop
NoPendingIdle == \A i \in DOMAIN inbox : inbox[i].type # "paused"

\* indicator and session agree with the player's idle status
Settled ==
  /\ config.IsPaused = player.idle
  /\ playing # "" <=> (~player.idle /\ config.CurrentlyPlaying # "")

Spawned == mpvProc \in {"spawned", "owned", "killed"}

\* C27: a player process is spawned only by the launch that follows a failed
\* first attempt with -start-mpv, which a run makes once; signals is non-nil
\* exactly when this process spawned the player; the player process is
\* killed only by the goroutine of runMpv, and then it is one this process
\* spawned; a quit with signals nil sends the pause and nothing else.
C27_Ownership ==
  [][/\ signals.made <=> Spawned
     /\ (mpvProc' = "spawned" /\ mpvProc # "spawned")
          => (ConnectLaunch /\ pc = "connect" /\ mpvProc = "none"
                /\ last'.kind = "launch")
     /\ ConnectLaunch => (signals'.made <=> mpvProc' = "spawned")
     /\ (mpvProc' = "killed" /\ mpvProc # "killed")
          => (SigKill /\ signals.made /\ mpvProc \in {"spawned", "owned"})
     /\ (QuitStop /\ mpvProc = "external")
          => /\ Commands(cmds') = <<SetPause(TRUE)>>
             /\ signals' = signals /\ ~signals'.made
             /\ mpvProc' = mpvProc]_vars

C27_Witness ==
  /\ pc = "quitting" /\ last.kind = "quitstop"
  /\ mpvProc = "external" /\ ~signals.made /\ sigpc = "off"
  /\ cmds = <<SetPause(TRUE)>>
  /\ player.path = HighestURL(1) /\ player.pause

====
